---- MODULE Spec2Model ----
(***************************************************************************)
(* A model of the Factoids plugin (src/plugins/Factoids.py): one channel   *)
(* database with the tables keys and factoids and the trigger              *)
(* remove_factoids, and the command handlers learn, whatis, lock, unlock,  *)
(* unlearn, randomfactoid and factoidinfo.                                 *)
(*                                                                         *)
(* Every handler is cut at its SQL statements: one action per statement    *)
(* (with the Python code that follows it up to the next statement), so     *)
(* that handlers of different threads interleave between statements, as    *)
(* they do on the one shared connection getDb returns for a channel.       *)
(* Spec lets two threads interleave; SpecSeq runs every call to its end   *)
(* on one thread before the next call starts; SpecLearn interleaves the    *)
(* learn calls of three threads; SpecClock runs calls on one key one at a  *)
(* time while the clock advances; SpecWhatis reads a key that holds up to  *)
(* MaxStored factoids.                                                     *)
(*                                                                         *)
(* A text (a key, a fact) is represented by its sequence of words, that    *)
(* is, by the argument list that ' '.join turns into it.                   *)
(***************************************************************************)
EXTENDS Integers, Sequences, FiniteSets, TLC

\* ------------------------------------------------------------- bounds
\* Calls made in one behaviour of Spec (threads interleave).
MaxCalls == 4
\* Calls made in one behaviour of SpecLearn (learn calls interleave).
MaxLearnCalls == 3
\* Calls made in one behaviour of SpecSeq (one call at a time).
MaxSeqCalls == 4
\* Largest value of the clock time.time().
MaxTime == 1
\* Factoids the one key of SpecWhatis may hold at the start.
MaxStored == 22
\* Calls made in one behaviour of SpecWhatis.
MaxReadCalls == 2
MaxMakeDbCalls == 4

\* ------------------------------------------------------------- constants
\* LIMIT 20 of whatis
Limit == 20
\* the length shrinkList is asked to keep the reply under
ShrinkLimit == 400
\* len(', or ')
SepLen == 5

\* The threads that run handlers: three in SpecLearn, the first two in Spec,
\* the first alone in SpecSeq.
Procs == {1, 2, 3}
ConcProcs == {1, 2}
Main == 1

\* ------------------------------------------------------------- inputs
KeyTexts == {<<"color">>, <<"hal", "1">>}
FactTexts == {<<"blue">>, <<"red">>}
Users == {"alice", "bob"}
NumTokens == {"0", "1", "2", "-1"}

VARIABLES
    store,      \* the channel's database file: does it exist, and its schema
    keys,       \* rows of table keys: [id, key, locked]
    factoids,   \* rows of table factoids: [id, key_id, added_by, added_at, fact]
    now,        \* int(time.time())
    pc,         \* per thread: the statement its handler is at, or "idle"
    loc,        \* per thread: the local variables of its running handler
    res,        \* per thread: the reply of its last finished call
    pre,        \* per thread: the tables as they were when its running call started
    budget      \* calls that may still be started

vars == <<store, keys, factoids, now, pc, loc, res, pre, budget>>

\* ------------------------------------------------------------- helpers
Max(S) == CHOOSE x \in S : \A y \in S : y <= x

Range(s) == {s[i] : i \in 1..Len(s)}

\* The elements of a finite set of rows as a sequence in ascending id order
\* (ORDER BY id; also the order of a table scan, which goes by rowid).
RECURSIVE OrderById(_)
OrderById(S) ==
    IF S = {} THEN <<>>
    ELSE LET m == CHOOSE r \in S : \A q \in S : r.id <= q.id
         IN <<m>> \o OrderById(S \ {m})

\* The first n elements of a sequence (LIMIT n).
Take(s, n) == SubSeq(s, 1, IF Len(s) < n THEN Len(s) ELSE n)

\* list.index(x): the first position (from 0) of x in s; -1 stands for ValueError.
IndexOf(s, x) ==
    IF \E i \in 1..Len(s) : s[i] = x
    THEN (CHOOSE i \in 1..Len(s) : s[i] = x /\ \A j \in 1..(i - 1) : s[j] # x) - 1
    ELSE -1

\* int(token), for the tokens that int accepts.
IsInt(tok) == tok \in NumTokens
ToInt(tok) ==
    CASE tok = "0" -> 0
      [] tok = "1" -> 1
      [] tok = "2" -> 2
      [] tok = "-1" -> -1

\* ------------------------------------------------------------- the database
NoStore == [exists |-> FALSE, objs |-> {}]
Schema == {"keys", "factoids", "remove_factoids"}

\* makeDb: an existing file is opened as it is; a new one gets the two tables
\* and the trigger.
MakeDb(s) ==
    IF s.exists THEN s ELSE [exists |-> TRUE, objs |-> Schema]

\* The id given to a row inserted with id NULL into a table with an
\* INTEGER PRIMARY KEY: one more than the largest id now in the table.
NewId(T) == IF T = {} THEN 1 ELSE Max({r.id : r \in T}) + 1

\* SELECT id, locked FROM keys WHERE key=%s
SelectKey(K, key) == {r \in K : r.key = key}

\* InsertKey without the UNIQUE ON CONFLICT IGNORE of the key column.
InsertKeyNotUnique(K, key) ==
    K \cup {[id |-> NewId(K), key |-> key, locked |-> 0]}

\* INSERT INTO keys VALUES (NULL, %s, 0), key being UNIQUE ON CONFLICT IGNORE
InsertKey(K, key) ==
    IF \E r \in K : r.key = key
    THEN K
    ELSE K \cup {[id |-> NewId(K), key |-> key, locked |-> 0]}

\* InsertFactoid with an id below every id of the table in place of max+1.
InsertFactoidInFront(F, key_id, name, t, fact) ==
    F \cup {[id |-> IF F = {} THEN 1
                    ELSE (CHOOSE m \in {r.id : r \in F} :
                             \A r \in F : m <= r.id) - 1,
             key_id |-> key_id, added_by |-> name,
             added_at |-> t, fact |-> fact]}

\* INSERT INTO factoids VALUES (NULL, %s, %s, %s, %s)
InsertFactoid(F, key_id, name, t, fact) ==
    F \cup {[id |-> NewId(F), key_id |-> key_id, added_by |-> name,
             added_at |-> t, fact |-> fact]}

\* UPDATE keys SET locked = v WHERE key=%s
SetLocked(K, key, v) ==
    {IF r.key = key THEN [r EXCEPT !.locked = v] ELSE r : r \in K}

\* DELETE FROM factoids WHERE key_id=%s
DeleteFactoidsOfKey(F, key_id) == {f \in F : f.key_id # key_id}

\* DELETE FROM factoids WHERE id=%s
DeleteFactoid(F, id) == {f \in F : f.id # id}

\* DeleteKeyRows with the DELETE FROM keys left out.
DeleteKeyRowsForgotten(K, key) == K

\* DELETE FROM keys WHERE key=%s: the rows left in keys
DeleteKeyRows(K, key) == {r \in K : r.key # key}

\* The trigger remove_factoids, BEFORE DELETE ON keys: the rows left in
\* factoids when the rows of K with this key are deleted.
RemoveFactoidsTrigger(K, F, key) ==
    {f \in F : \A r \in SelectKey(K, key) : f.key_id # r.id}

\* SELECT ... FROM factoids, keys WHERE keys.key=%s AND factoids.key_id=keys.id:
\* the factoid rows of the join, in ascending factoids.id order.
FactoidsOf(K, F, key) ==
    OrderById({f \in F : \E r \in SelectKey(K, key) : f.key_id = r.id})

\* s[i] as Python reads it: from 0, a negative i counting from the end.
PyInRange(s, i) == -Len(s) <= i /\ i < Len(s)
PyIndex(s, i) == IF i >= 0 THEN s[i + 1] ELSE s[Len(s) + i + 1]

\* ------------------------------------------------------------- threads
Reply(op, key, kind) ==
    [op |-> op, kind |-> kind, key |-> key, fact |-> <<>>, list |-> <<>>, shown |-> <<>>,
     counter |-> 0, total |-> 0, flag |-> FALSE, locked |-> 0]

NoLoc == [key |-> <<>>, factoid |-> <<>>, hasNumber |-> FALSE, number |-> 0,
          id |-> 0, locked |-> 0]

NoSnapshot == [keys |-> {}, factoids |-> {}]
Snapshot == [keys |-> keys, factoids |-> factoids]

\* A call starts on an idle thread; getDb opens the channel's database.
Start(p) ==
    /\ pc[p] = "idle"
    /\ budget > 0
    /\ budget' = budget - 1

\* The call goes on to its next statement, with the local variables l.
Goto(p, label, l) ==
    /\ pc' = [pc EXCEPT ![p] = label]
    /\ loc' = [loc EXCEPT ![p] = l]
    /\ pre' = [pre EXCEPT ![p] = IF pc[p] = "idle" THEN Snapshot ELSE @]
    /\ UNCHANGED res

\* The call ends with reply r: the thread is idle again.
Finish(p, r) ==
    /\ pc' = [pc EXCEPT ![p] = "idle"]
    /\ loc' = [loc EXCEPT ![p] = NoLoc]
    /\ pre' = [pre EXCEPT ![p] = NoSnapshot]
    /\ res' = [res EXCEPT ![p] = r]

InitWith(n) ==
    /\ store = NoStore
    /\ keys = {}
    /\ factoids = {}
    /\ now = 0
    /\ pc = [p \in Procs |-> "idle"]
    /\ loc = [p \in Procs |-> NoLoc]
    /\ res = [p \in Procs |-> Reply("none", <<>>, "none")]
    /\ pre = [p \in Procs |-> NoSnapshot]
    /\ budget = n

Init == InitWith(MaxCalls)

\* The clock advances.
Tick ==
    /\ now < MaxTime
    /\ now' = now + 1
    /\ UNCHANGED <<store, keys, factoids, pc, loc, res, pre, budget>>

\* ------------------------------------------------------------- learn
\* (id, locked) = map(int, cursor.fetchone())
Fetched(l, rows) ==
    LET r == CHOOSE r \in rows : TRUE
    IN [l EXCEPT !.id = r.id, !.locked = r.locked]

\* learn, lines 86-97 (and 101 when the key is there): split the arguments at
\* the first 'as', open the database and look the key up.
LearnCall(p, args) ==
    LET i == IndexOf(args, "as")
        l == [NoLoc EXCEPT !.key = SubSeq(args, 1, i),
                           !.factoid = SubSeq(args, i + 2, Len(args))]
        rows == SelectKey(keys, l.key)
    IN
    /\ Start(p)
    /\ IF i < 0
       THEN Finish(p, Reply("learn", <<>>, "ArgumentError")) /\ UNCHANGED store
       ELSE /\ store' = MakeDb(store)
            /\ IF rows = {}
               THEN Goto(p, "learn_insert_key", l)
               ELSE Goto(p, "learn_check", Fetched(l, rows))
    /\ UNCHANGED <<keys, factoids, now>>

\* learn, lines 98-99.
LearnInsertKey(p) ==
    /\ pc[p] = "learn_insert_key"
    /\ keys' = InsertKey(keys, loc[p].key)
    /\ Goto(p, "learn_reselect", loc[p])
    /\ UNCHANGED <<store, factoids, now, budget>>

\* learn, lines 100-101: fetchone() is None when the key is gone again, and
\* map(int, None) raises TypeError.
LearnReselect(p) ==
    LET rows == SelectKey(keys, loc[p].key) IN
    /\ pc[p] = "learn_reselect"
    /\ IF rows = {}
       THEN Finish(p, Reply("learn", loc[p].key, "TypeError"))
       ELSE Goto(p, "learn_check", Fetched(loc[p], rows))
    /\ UNCHANGED <<store, keys, factoids, now, budget>>

\* LearnCheck with the insert done before the lock test.
LearnCheckInsertFirst(p, name, cap, ok) ==
    /\ pc[p] = "learn_check"
    /\ factoids' = InsertFactoid(factoids, loc[p].id, name, now, loc[p].factoid)
    /\ Finish(p, Reply("learn", loc[p].key,
                       IF loc[p].locked = 0 THEN "Success" ELSE "Locked"))
    /\ UNCHANGED <<store, keys, now, budget>>

\* learn, lines 102-117: the lock test, the capability test and the insert.
\* cap is what ircdb.checkCapability answers for the caller, name the name
\* ircdb.users (or msg.nick) gives for the caller; ok = FALSE is the INSERT
\* raising (the storage fails).
LearnCheck(p, name, cap, ok) ==
    /\ pc[p] = "learn_check"
    /\ IF loc[p].locked = 0
       THEN IF ~cap
            THEN /\ Finish(p, Reply("learn", loc[p].key, "NoCapability"))
                 /\ UNCHANGED factoids
            ELSE IF ok
                 THEN /\ factoids' = InsertFactoid(factoids, loc[p].id,
                                         name, now, loc[p].factoid)
                      /\ Finish(p, Reply("learn", loc[p].key, "Success"))
                 ELSE /\ Finish(p, Reply("learn", loc[p].key, "StorageFailure"))
                      /\ UNCHANGED factoids
       ELSE Finish(p, Reply("learn", loc[p].key, "Locked")) /\ UNCHANGED factoids
    /\ UNCHANGED <<store, keys, now, budget>>

\* ------------------------------------------------------------- lock, unlock
\* lock, lines 157-167.
Lock(p, args, cap) ==
    /\ Start(p)
    /\ IF args = <<>>
       THEN Finish(p, Reply("lock", <<>>, "ArgumentError")) /\ UNCHANGED <<store, keys>>
       ELSE /\ store' = MakeDb(store)
            /\ IF cap
               THEN /\ keys' = SetLocked(keys, args, 1)
                    /\ Finish(p, Reply("lock", args, "Success"))
               ELSE /\ Finish(p, Reply("lock", args, "NoCapability"))
                    /\ UNCHANGED keys
    /\ UNCHANGED <<factoids, now>>

\* unlock, lines 176-186.
Unlock(p, args, cap) ==
    /\ Start(p)
    /\ IF args = <<>>
       THEN Finish(p, Reply("unlock", <<>>, "ArgumentError")) /\ UNCHANGED <<store, keys>>
       ELSE /\ store' = MakeDb(store)
            /\ IF cap
               THEN /\ keys' = SetLocked(keys, args, 0)
                    /\ Finish(p, Reply("unlock", args, "Success"))
               ELSE /\ Finish(p, Reply("unlock", args, "NoCapability"))
                    /\ UNCHANGED keys
    /\ UNCHANGED <<factoids, now>>

\* ------------------------------------------------------------- unlearn
\* args[-1].isdigit: the bound method itself, not its result; it is true of
\* every token.
IsDigitAttr(tok) == TRUE

\* UnlearnRows with the rows in descending factoids.id order.
UnlearnRowsDescending(K, F, key) ==
    LET up == FactoidsOf(K, F, key)
    IN [i \in 1..Len(up) |-> up[Len(up) + 1 - i]]

\* unlearn, lines 206-209: SELECT keys.id, factoids.id FROM keys, factoids
\* WHERE key=%s AND factoids.key_id=keys.id.  The query has no ORDER BY; the
\* one keys row with this key is joined to a scan of factoids, which goes by
\* rowid, so the rows come in ascending factoids.id order.
UnlearnRows(K, F, key) == FactoidsOf(K, F, key)

\* unlearn, lines 196-212, 218-225 and 229-232: take the number off the
\* arguments, open the database, test the capability and read the key's
\* factoids.
UnlearnCall(p, args, cap) ==
    LET last == args[Len(args)]
        hasNumber == IsDigitAttr(last)
        rest == IF hasNumber THEN SubSeq(args, 1, Len(args) - 1) ELSE args
        l == [NoLoc EXCEPT !.key = rest, !.hasNumber = hasNumber,
                           !.number = IF hasNumber THEN ToInt(last) ELSE 0]
        rows == UnlearnRows(keys, factoids, rest)
    IN
    /\ Start(p)
    /\ IF args = <<>>
       THEN Finish(p, Reply("unlearn", <<>>, "IndexError")) /\ UNCHANGED store
       ELSE IF hasNumber /\ ~IsInt(last)
       THEN Finish(p, Reply("unlearn", <<>>, "ValueError")) /\ UNCHANGED store
       ELSE IF rest = <<>>
       THEN Finish(p, Reply("unlearn", <<>>, "ArgumentError")) /\ UNCHANGED store
       ELSE
         /\ store' = MakeDb(store)
         /\ IF ~cap
            THEN Finish(p, Reply("unlearn", rest, "NoCapability"))
            ELSE IF Len(rows) = 0
            THEN Finish(p, Reply("unlearn", rest, "NotFound"))
            ELSE IF Len(rows) = 1
            THEN Goto(p, "unlearn_delete_factoids", [l EXCEPT !.id = rows[1].key_id])
            ELSE IF l.hasNumber
            THEN IF PyInRange(rows, l.number)
                 THEN Goto(p, "unlearn_delete_one",
                           [l EXCEPT !.id = PyIndex(rows, l.number).id])
                 ELSE Finish(p, Reply("unlearn", rest, "InvalidPosition"))
            ELSE Finish(p, [Reply("unlearn", rest, "AmbiguousKey")
                               EXCEPT !.total = Len(rows)])
    /\ UNCHANGED <<keys, factoids, now>>

\* unlearn, line 214.
UnlearnDeleteFactoids(p) ==
    /\ pc[p] = "unlearn_delete_factoids"
    /\ factoids' = DeleteFactoidsOfKey(factoids, loc[p].id)
    /\ Goto(p, "unlearn_delete_key", loc[p])
    /\ UNCHANGED <<store, keys, now, budget>>

\* unlearn, lines 215-217: the DELETE fires the trigger.
UnlearnDeleteKey(p) ==
    /\ pc[p] = "unlearn_delete_key"
    /\ factoids' = RemoveFactoidsTrigger(keys, factoids, loc[p].key)
    /\ keys' = DeleteKeyRows(keys, loc[p].key)
    /\ Finish(p, Reply("unlearn", loc[p].key, "Success"))
    /\ UNCHANGED <<store, now, budget>>

\* unlearn, lines 226-228.
UnlearnDeleteOne(p) ==
    /\ pc[p] = "unlearn_delete_one"
    /\ factoids' = DeleteFactoid(factoids, loc[p].id)
    /\ Finish(p, Reply("unlearn", loc[p].key, "Success"))
    /\ UNCHANGED <<store, keys, now, budget>>

\* ------------------------------------------------------------- whatis
\* len() of a word.
TokLen(tok) ==
    CASE tok = "color" -> 5
      [] tok = "blue" -> 4
      [] tok \in {"red", "hal"} -> 3
      [] OTHER -> 1

\* len(' '.join(words))
RECURSIVE TextLen(_)
TextLen(words) ==
    IF words = <<>> THEN 0
    ELSE IF Len(words) = 1 THEN TokLen(words[1])
    ELSE TokLen(words[1]) + 1 + TextLen(Tail(words))

\* len('(#%s) %s' % (counter, fact))
EntryLen(e) == 2 + (IF e.counter < 10 THEN 1 ELSE 2) + 2 + TextLen(e.fact)

\* len(', or '.join(L))
RECURSIVE JoinedLen(_)
JoinedLen(L) ==
    IF L = <<>> THEN 0
    ELSE IF Len(L) = 1 THEN EntryLen(L[1])
    ELSE EntryLen(L[1]) + SepLen + JoinedLen(Tail(L))

\* ircutils.shrinkList(L, ', or ', 400): entries are dropped from the end of L
\* until the joined reply is no longer than the limit.
RECURSIVE ShrinkList(_)
ShrinkList(L) ==
    IF L # <<>> /\ JoinedLen(L) > ShrinkLimit
    THEN ShrinkList(SubSeq(L, 1, Len(L) - 1))
    ELSE L

\* whatis, lines 130-133: the facts of the key, by id, 20 at most.
WhatisRows(K, F, key) == Take(FactoidsOf(K, F, key), Limit)

\* whatis, lines 137-142: the numbered entries and the two counts.
WhatisEntries(rows) == [i \in 1..Len(rows) |-> [counter |-> i - 1, fact |-> rows[i].fact]]

\* whatis, lines 126-148.
Whatis(p, args) ==
    LET rows == WhatisRows(keys, factoids, args)
        entries == WhatisEntries(rows)
        counter == Len(entries)
        totalResults == Len(entries)
        shown == ShrinkList(entries)
        shrunk == Len(shown) < Len(entries)
    IN
    /\ Start(p)
    /\ IF args = <<>>
       THEN Finish(p, Reply("whatis", <<>>, "ArgumentError")) /\ UNCHANGED store
       ELSE /\ store' = MakeDb(store)
            /\ IF Len(rows) = 0
               THEN Finish(p, Reply("whatis", args, "NotFound"))
               ELSE Finish(p, [Reply("whatis", args, "Success") EXCEPT
                                  !.list = entries, !.shown = shown,
                                  !.counter = counter,
                                  !.total = totalResults,
                                  !.flag = shrunk])
    /\ UNCHANGED <<keys, factoids, now>>

\* ------------------------------------------------------------- randomfactoid
\* RandomCall that keeps the id of the factoids row in place of its key_id.
RandomCallByFactoidId(p) ==
    /\ Start(p)
    /\ store' = MakeDb(store)
    /\ IF factoids = {}
       THEN Finish(p, Reply("randomfactoid", <<>>, "Empty"))
       ELSE \E f \in factoids :
                Goto(p, "random_select_key",
                     [NoLoc EXCEPT !.factoid = f.fact, !.id = f.id])
    /\ UNCHANGED <<keys, factoids, now>>

\* randomfactoid, lines 242-249: ORDER BY random() LIMIT 1 picks any row.
RandomCall(p) ==
    /\ Start(p)
    /\ store' = MakeDb(store)
    /\ IF factoids = {}
       THEN Finish(p, Reply("randomfactoid", <<>>, "Empty"))
       ELSE \E f \in factoids :
                Goto(p, "random_select_key",
                     [NoLoc EXCEPT !.factoid = f.fact, !.id = f.key_id])
    /\ UNCHANGED <<keys, factoids, now>>

\* randomfactoid, lines 250-252: fetchone() is None when no key has the id,
\* and None[0] raises TypeError.
RandomSelectKey(p) ==
    LET rows == {r \in keys : r.id = loc[p].id} IN
    /\ pc[p] = "random_select_key"
    /\ IF rows = {}
       THEN Finish(p, Reply("randomfactoid", <<>>, "TypeError"))
       ELSE Finish(p, [Reply("randomfactoid", (CHOOSE r \in rows : TRUE).key, "Success")
                          EXCEPT !.fact = loc[p].factoid])
    /\ UNCHANGED <<store, keys, factoids, now, budget>>

\* ------------------------------------------------------------- factoidinfo
\* factoidinfo, lines 263-271.
InfoCall(p, args) ==
    LET rows == SelectKey(keys, args) IN
    /\ Start(p)
    /\ IF args = <<>>
       THEN Finish(p, Reply("factoidinfo", <<>>, "ArgumentError")) /\ UNCHANGED store
       ELSE /\ store' = MakeDb(store)
            /\ IF rows = {}
               THEN Finish(p, Reply("factoidinfo", args, "NotFound"))
               ELSE Goto(p, "info_select_factoids",
                         Fetched([NoLoc EXCEPT !.key = args], rows))
    /\ UNCHANGED <<keys, factoids, now>>

\* factoidinfo, lines 272-275: SELECT added_by, added_at ... ORDER BY id
InfoRows(F, key_id) ==
    LET rows == OrderById({f \in F : f.key_id = key_id})
    IN [i \in 1..Len(rows) |-> [added_by |-> rows[i].added_by,
                                added_at |-> rows[i].added_at]]

\* factoidinfo, lines 272-286.
InfoSelectFactoids(p) ==
    LET rows == InfoRows(factoids, loc[p].id) IN
    /\ pc[p] = "info_select_factoids"
    /\ Finish(p, [Reply("factoidinfo", loc[p].key, "Success") EXCEPT
                     !.locked = loc[p].locked,
                     !.counter = Len(rows), !.list = rows])
    /\ UNCHANGED <<store, keys, factoids, now, budget>>

\* ------------------------------------------------------------- the commands
LearnArgs == {k \o <<"as">> \o f : k \in KeyTexts, f \in FactTexts}
                 \cup {<<"color">>}
UnlearnArgs == {k \o n : k \in KeyTexts, n \in {<<>>} \cup {<<t>> : t \in NumTokens}}

\* ------------------------------------------------------------- makeDb
\* makeDb statement by statement. The CREATE statements run in the
\* transaction of the new connection: what they make is in the file after
\* the commit of line 77, and the first of them takes the file's write
\* lock, which the connection holds until it commits or is dropped.
CreateLabels ==
    <<"makedb_create_keys", "makedb_create_factoids", "makedb_create_trigger">>
CreateObjects == <<"keys", "factoids", "remove_factoids">>
HoldsWriteLock(q) ==
    pc[q] \in {"makedb_create_factoids", "makedb_create_trigger", "makedb_commit"}

\* makeDb, lines 54-56: an existing file is opened as it is.
MakeDbExists(p) ==
    /\ Start(p)
    /\ IF store.exists
       THEN Finish(p, Reply("makeDb", <<>>, "Handle"))
       ELSE Goto(p, "makedb_connect", NoLoc)
    /\ UNCHANGED <<store, keys, factoids, now>>

\* makeDb, lines 57-58: sqlite.connect creates the file.
MakeDbConnect(p) ==
    /\ pc[p] = "makedb_connect"
    /\ store' = [store EXCEPT !.exists = TRUE]
    /\ Goto(p, CreateLabels[1], loc[p])
    /\ UNCHANGED <<keys, factoids, now, budget>>

\* makeDb, lines 59-76: one CREATE statement. It raises when the statement
\* fails (ok is FALSE), when another connection holds the write lock, or
\* when the file has the object already; makeDb catches nothing, so the
\* call ends there and its transaction is dropped.
MakeDbCreate(p, ok) ==
    \E i \in 1..Len(CreateLabels) :
        /\ pc[p] = CreateLabels[i]
        /\ IF \/ ~ok
              \/ \E q \in Procs \ {p} : HoldsWriteLock(q)
              \/ CreateObjects[i] \in store.objs
           THEN Finish(p, Reply("makeDb", <<>>, "StorageFailure"))
           ELSE Goto(p, IF i < Len(CreateLabels) THEN CreateLabels[i + 1]
                                                 ELSE "makedb_commit", loc[p])
        /\ UNCHANGED <<store, keys, factoids, now, budget>>

\* makeDb, lines 77-78.
MakeDbCommit(p) ==
    /\ pc[p] = "makedb_commit"
    /\ store' = [store EXCEPT !.objs = @ \cup Range(CreateObjects)]
    /\ Finish(p, Reply("makeDb", <<>>, "Handle"))
    /\ UNCHANGED <<keys, factoids, now, budget>>

MakeDbStep(p) ==
    \/ MakeDbExists(p)
    \/ MakeDbConnect(p)
    \/ \E ok \in BOOLEAN : MakeDbCreate(p, ok)
    \/ MakeDbCommit(p)

\* What the callers of a specification send.
AllInputs == [learn |-> LearnArgs, unlearn |-> UnlearnArgs, keys |-> KeyTexts,
              users |-> Users, caps |-> BOOLEAN, oks |-> BOOLEAN]

\* What the callers of Spec send: two keys, positions 0 and 1, callers that
\* hold the capability, a storage that does not fail.
ConcInputs == [learn |-> {<<"color", "as", "blue">>, <<"hal", "1", "as", "red">>},
               unlearn |-> {<<"color", "0">>, <<"color", "1">>},
               keys |-> {<<"color">>},
               users |-> {"alice"}, caps |-> {TRUE}, oks |-> {TRUE}]

\* The steps of thread p, the calls it starts drawn from I.
LearnStep(p, I) ==
    \/ \E args \in I.learn : LearnCall(p, args)
    \/ LearnInsertKey(p)
    \/ LearnReselect(p)
    \/ \E name \in I.users, cap \in I.caps, ok \in I.oks :
           LearnCheck(p, name, cap, ok)

LockStep(p, I) ==
    \/ \E args \in I.keys, cap \in I.caps : Lock(p, args, cap)
    \/ \E args \in I.keys, cap \in I.caps : Unlock(p, args, cap)

UnlearnStep(p, I) ==
    \/ \E args \in I.unlearn, cap \in I.caps : UnlearnCall(p, args, cap)
    \/ UnlearnDeleteFactoids(p)
    \/ UnlearnDeleteKey(p)
    \/ UnlearnDeleteOne(p)

ReadStep(p, I) ==
    \/ \E args \in I.keys : Whatis(p, args)
    \/ RandomCall(p)
    \/ RandomSelectKey(p)
    \/ \E args \in I.keys : InfoCall(p, args)
    \/ InfoSelectFactoids(p)

Step(p, I) ==
    LearnStep(p, I) \/ LockStep(p, I) \/ UnlearnStep(p, I) \/ ReadStep(p, I)

\* The threads interleave between statements.
Next == \E p \in ConcProcs : Step(p, ConcInputs)
Spec == Init /\ [][Next]_vars

\* One call at a time, each run to its end on the main thread.
InitSeq == InitWith(MaxSeqCalls)
NextSeq == Step(Main, AllInputs)
SpecSeq == InitSeq /\ [][NextSeq]_vars

\* One call at a time on one key while the clock runs: what learn stores and
\* the reads report of it.
ClockInputs == [AllInputs EXCEPT
                   !.learn = {<<"color", "as", "blue">>, <<"color", "as", "red">>},
                   !.unlearn = {<<"color", "0">>, <<"color", "1">>},
                   !.keys = {<<"color">>},
                   !.caps = {TRUE}, !.oks = {TRUE}]
NextClock ==
    \/ Tick
    \/ LearnStep(Main, ClockInputs)
    \/ UnlearnStep(Main, ClockInputs)
    \/ ReadStep(Main, ClockInputs)
SpecClock == InitSeq /\ [][NextClock]_vars

\* Concurrent learn calls only, every caller allowed to learn.
LearnInputs == [AllInputs EXCEPT !.learn = LearnArgs \ {<<"color">>},
                                 !.caps = {TRUE}, !.oks = {TRUE}]
NextLearn == \E p \in Procs : LearnStep(p, LearnInputs)
InitLearn == InitWith(MaxLearnCalls)
SpecLearn == InitLearn /\ [][NextLearn]_vars

\* Reads of a key that holds many factoids.  The store is as n learn calls
\* of the same fact under "color" by alice leave an empty store.
Stored(n, fact) ==
    {[id |-> i, key_id |-> 1, added_by |-> "alice", added_at |-> 0, fact |-> fact]
        : i \in 1..n}

InitWhatis ==
    /\ store = MakeDb(NoStore)
    /\ keys = {[id |-> 1, key |-> <<"color">>, locked |-> 0]}
    /\ \E n \in 1..MaxStored, fact \in FactTexts :
           factoids = Stored(n, fact)
    /\ now = 0
    /\ pc = [p \in Procs |-> "idle"]
    /\ loc = [p \in Procs |-> NoLoc]
    /\ res = [p \in Procs |-> Reply("none", <<>>, "none")]
    /\ pre = [p \in Procs |-> NoSnapshot]
    /\ budget = MaxReadCalls

NextWhatis == ReadStep(Main, AllInputs)
SpecWhatis == InitWhatis /\ [][NextWhatis]_vars

\* makeDb calls of three threads, on a channel that has no file yet or has
\* a database with one factoid.
InitMakeDb ==
    \/ InitWith(MaxMakeDbCalls)
    \/ \E fact \in FactTexts :
           /\ store = MakeDb(NoStore)
           /\ keys = InsertKey({}, <<"color">>)
           /\ factoids = Stored(1, fact)
           /\ now = 0
           /\ pc = [p \in Procs |-> "idle"]
           /\ loc = [p \in Procs |-> NoLoc]
           /\ res = [p \in Procs |-> Reply("none", <<>>, "none")]
           /\ pre = [p \in Procs |-> NoSnapshot]
           /\ budget = MaxMakeDbCalls
NextMakeDb == \E p \in Procs : MakeDbStep(p)
SpecMakeDb == InitMakeDb /\ [][NextMakeDb]_vars

\* ------------------------------------------------------------- claims
\* The labels of a handler that has read the tables and not yet finished.
LearnLabels == {"learn_insert_key", "learn_reselect", "learn_check"}
UnlearnLabels == {"unlearn_delete_factoids", "unlearn_delete_key",
                  "unlearn_delete_one"}

\* Thread p ends a call with this step.
Ends(p) == pc[p] # "idle" /\ pc'[p] = "idle"

\* The factoid rows of the key row r.
RowsOf(F, r) == {f \in F : f.key_id = r.id}

\* C1: however learn calls with the same new key interleave, there is one
\* keys row for the key, every call resolves the key to the id of that row,
\* and the factoid a call appends carries that id.
C1_OneRowPerKey ==
    \A r1 \in keys, r2 \in keys : r1.key = r2.key => r1 = r2
C1_ResolvedToTheRow ==
    \A p \in Procs : pc[p] = "learn_check" =>
        \E r \in keys : r.key = loc[p].key /\ r.id = loc[p].id
C1_AppendedUnderTheRow ==
    \A p \in Procs :
        (pc[p] = "learn_check" /\ Ends(p) /\ res'[p].kind = "Success") =>
            \E r \in keys', f \in factoids' :
                /\ r.key = loc[p].key
                /\ f.key_id = r.id
                /\ f.fact = loc[p].factoid
                /\ f \notin factoids
                /\ factoids' = factoids \cup {f}
C1_ConcurrentLearnOneKey ==
    /\ [](C1_OneRowPerKey /\ C1_ResolvedToTheRow)
    /\ [][C1_AppendedUnderTheRow]_vars

\* C1 witness: three learn calls found the same key missing, each has done
\* its INSERT, and there is one row.
C1_Witness ==
    /\ \A p \in Procs : pc[p] = "learn_reselect" /\ loc[p].key = <<"color">>
    /\ Cardinality(keys) = 1

\* C2: between calls, every keys row has at least one factoids row.
C2_EveryKeyHasAFactoid ==
    pc[Main] = "idle" => \A r \in keys : RowsOf(factoids, r) # {}

\* C3: a learn call that finds its key locked replies Locked and leaves the
\* factoids as they were when the call started.
C3_LockedLearnWritesNothing ==
    [][\A p \in Procs :
          (pc[p] = "learn_check" /\ loc[p].locked # 0 /\ Ends(p)) =>
              /\ res'[p].kind = "Locked"
              /\ factoids' = pre[p].factoids
              /\ keys' = pre[p].keys]_vars

C3_Witness ==
    /\ res[Main].op = "learn" /\ res[Main].kind = "Locked"
    /\ \E r \in keys : r.key = res[Main].key /\ r.locked = 1 /\ RowsOf(factoids, r) # {}

\* C4: no step removes a factoid of a locked key, adds one to it, or deletes
\* the key.
C4_LockedKeyKeepsItsFactoids ==
    [][\A r \in keys : r.locked = 1 =>
          /\ \E r2 \in keys' : r2.id = r.id /\ r2.key = r.key
          /\ RowsOf(factoids', r) = RowsOf(factoids, r)]_vars

\* C5: an unlearn that leaves its key without factoids leaves no keys row
\* for it; factoidinfo on a text that has no keys row replies NotFound; a
\* learn of a text that has no keys row makes a row that is not locked and
\* goes on to the insert with locked = 0.
C5_UnlearnLastRemovesKey ==
    \A p \in Procs :
        (pc[p] \in UnlearnLabels /\ Ends(p) /\ res'[p].kind = "Success"
            /\ FactoidsOf(keys', factoids', loc[p].key) = <<>>) =>
                SelectKey(keys', loc[p].key) = {}
C5_InfoOfMissingKey ==
    \A p \in Procs, args \in KeyTexts :
        (InfoCall(p, args) /\ SelectKey(keys, args) = {}) =>
            res'[p].kind = "NotFound"
C5_LearnMakesUnlockedKey ==
    \A p \in Procs :
        /\ (LearnInsertKey(p) /\ SelectKey(keys, loc[p].key) = {}) =>
               \E r \in keys' : r.key = loc[p].key /\ r.locked = 0
        /\ (pc[p] = "learn_reselect" /\ pc'[p] = "learn_check") =>
               loc'[p].locked = 0
C5_KeyGoesWithLastFactoid ==
    [][C5_UnlearnLastRemovesKey /\ C5_InfoOfMissingKey
          /\ C5_LearnMakesUnlockedKey]_vars

\* C5 witness: unlearn has just removed the only factoid of its key, and the
\* keys row is gone.
C5_Witness ==
    /\ res[Main].op = "unlearn" /\ res[Main].kind = "Success"
    /\ SelectKey(keys, res[Main].key) = {}
    /\ pc[Main] = "idle"

\* C6: whatis on a key that holds n >= 1 factoids shows min(n, 20) entries,
\* reports n as the total, and flags truncation exactly when n > 20.
C6_WhatisCounts ==
    \A p \in Procs :
        (res[p].op = "whatis" /\ res[p].kind = "Success") =>
            LET n == Len(FactoidsOf(keys, factoids, res[p].key)) IN
            /\ Len(res[p].shown) = (IF n < Limit THEN n ELSE Limit)
            /\ res[p].total = n
            /\ res[p].flag <=> (n > Limit)

\* The sequence s without its element at position i (from 1).
RemoveAt(s, i) == SubSeq(s, 1, i - 1) \o SubSeq(s, i + 1, Len(s))

C8_OutOfRangePositionRefused ==
    [][\A p \in Procs, args \in UnlearnArgs :
          LET key == SubSeq(args, 1, Len(args) - 1)
              count == Len(FactoidsOf(keys, factoids, key))
          IN (/\ UnlearnCall(p, args, TRUE)
              /\ IsInt(args[Len(args)])
              /\ count >= 1
              /\ ToInt(args[Len(args)]) \notin 0..(count - 1)) =>
                 /\ pc'[p] = "idle"
                 /\ res'[p].kind = "InvalidPosition"
                 /\ keys' = keys /\ factoids' = factoids]_vars

\* C9: lock or unlock, by a caller with the capability, of a text that has
\* no keys row replies NotFound and changes nothing.
C9_LockOfMissingKeyNotFound ==
    [][\A p \in Procs, args \in KeyTexts :
          ((Lock(p, args, TRUE) \/ Unlock(p, args, TRUE))
              /\ SelectKey(keys, args) = {}) =>
                 /\ res'[p].kind = "NotFound"
                 /\ keys' = keys /\ factoids' = factoids]_vars

\* C10: a learn call that ends with Locked, NoCapability or StorageFailure
\* leaves the tables as they were when the call started.
C10_FailedLearnChangesNothing ==
    [][\A p \in Procs :
          (pc[p] \in LearnLabels /\ Ends(p)
              /\ res'[p].kind \in {"Locked", "NoCapability", "StorageFailure"}) =>
                 /\ keys' = pre[p].keys
                 /\ factoids' = pre[p].factoids]_vars

\* C11: every factoids row has the id of a keys row in its key_id, also
\* while learn and unlearn calls on the same key interleave.
C11_NoOrphanFactoid ==
    \A f \in factoids : \E r \in keys : r.id = f.key_id

\* C12: when the last calls of both threads are unlearns of the same key
\* that replied success and the key has no factoid left, its keys row is
\* gone too.
C12_ConcurrentUnlearnRemovesKey ==
    \A k \in KeyTexts :
        (/\ \A p \in ConcProcs :
                /\ pc[p] = "idle"
                /\ res[p].op = "unlearn" /\ res[p].kind = "Success"
                /\ res[p].key = k
         /\ FactoidsOf(keys, factoids, k) = <<>>)
            => SelectKey(keys, k) = {}

\* C13: factoidinfo never reports a key that has no factoid, and
\* randomfactoid ends with a key and a fact or with Empty.
C13_ReadsSeeWholePairs ==
    \A p \in Procs :
        /\ (res[p].op = "factoidinfo" /\ res[p].kind = "Success") =>
               res[p].counter >= 1
        /\ res[p].op = "randomfactoid" => res[p].kind \in {"Success", "Empty"}

\* The facts the callers of Spec learn under the key k.
LearnedUnder(k) ==
    {SubSeq(a, IndexOf(a, "as") + 2, Len(a)) :
        a \in {b \in ConcInputs.learn : SubSeq(b, 1, IndexOf(b, "as")) = k}}

\* C14: what whatis lists under a key was learned under that key.
C14_FactoidStaysUnderItsKey ==
    \A k \in KeyTexts :
        \A e \in Range(WhatisEntries(WhatisRows(keys, factoids, k))) :
            e.fact \in LearnedUnder(k)

\* C15: unlearn of a key text without a position, by a caller with the
\* capability: on a key with more than one factoid it replies AmbiguousKey
\* with the count and changes nothing, on a key with one factoid it goes on
\* to delete the factoid and the key, on a key with none it replies
\* NotFound and changes nothing.
C15_UnlearnWithoutPosition ==
    [][\A p \in Procs, key \in KeyTexts :
          LET n == Len(FactoidsOf(keys, factoids, key))
          IN UnlearnCall(p, key, TRUE) =>
                /\ n > 1 => /\ pc'[p] = "idle"
                            /\ res'[p].kind = "AmbiguousKey"
                            /\ res'[p].total = n
                            /\ keys' = keys /\ factoids' = factoids
                /\ n = 1 => /\ pc'[p] = "unlearn_delete_factoids"
                            /\ loc'[p].key = key
                /\ n = 0 => /\ pc'[p] = "idle"
                            /\ res'[p].kind = "NotFound"
                            /\ keys' = keys /\ factoids' = factoids]_vars

\* C16: lock of an existing key sets its locked flag, the flag stays set
\* over every step that is not an unlock of the key, and a learn of a key
\* whose flag is set ends with Locked; unlock clears the flag, and a learn
\* of a key whose flag is clear by a caller with the capability succeeds
\* and appends; lock and unlock change nothing but the locked flag of
\* their key.
C16_LockedUntilUnlock ==
    [][\A p \in Procs, k \in KeyTexts :
          LET row == SelectKey(keys, k)
              isLocked == \E r \in row : r.locked = 1
          IN
          /\ (Lock(p, k, TRUE) /\ row # {}) =>
                 /\ res'[p].kind = "Success"
                 /\ \E r \in SelectKey(keys', k) : r.locked = 1
          /\ (isLocked /\ ~ \E q \in Procs, cap \in BOOLEAN : Unlock(q, k, cap)) =>
                 \E r \in SelectKey(keys', k) : r.locked = 1
          /\ (isLocked /\ pc[p] = "learn_check" /\ loc[p].key = k
                 /\ pc'[p] = "idle") =>
                 res'[p].kind = "Locked"
          /\ (Unlock(p, k, TRUE) /\ row # {}) =>
                 /\ res'[p].kind = "Success"
                 /\ \E r \in SelectKey(keys', k) : r.locked = 0
          /\ (~isLocked /\ row # {} /\ loc[p].key = k
                 /\ \E name \in Users : LearnCheck(p, name, TRUE, TRUE)) =>
                 /\ res'[p].kind = "Success"
                 /\ Len(FactoidsOf(keys', factoids', k)) =
                        Len(FactoidsOf(keys, factoids, k)) + 1
          /\ (\E cap \in BOOLEAN : Lock(p, k, cap) \/ Unlock(p, k, cap)) =>
                 /\ factoids' = factoids
                 /\ {r \in keys' : r.key # k} = {r \in keys : r.key # k}
                 /\ {[id |-> r.id, key |-> r.key] : r \in keys'} =
                        {[id |-> r.id, key |-> r.key] : r \in keys}]_vars

\* C17: a learn that succeeds on a key that held n < 20 factoids makes
\* whatis of that key list the n entries it listed before, in their order,
\* followed by the new fact, n + 1 entries in all and none cut off; the
\* factoids and locked flags of the other keys stay as they were.
C17_LearnAppendsToWhatis ==
    [][\A p \in Procs :
          (pc[p] = "learn_check" /\ Ends(p) /\ res'[p].kind = "Success") =>
              LET k == loc[p].key
                  n == Len(FactoidsOf(pre[p].keys, pre[p].factoids, k))
                  before == WhatisEntries(
                                WhatisRows(pre[p].keys, pre[p].factoids, k))
                  after == WhatisEntries(WhatisRows(keys', factoids', k))
              IN n < Limit =>
                  /\ after = before \o
                         <<[counter |-> n, fact |-> loc[p].factoid]>>
                  /\ Len(after) = n + 1
                  /\ ShrinkList(after) = after
                  /\ {r \in keys' : r.key # k} =
                         {r \in pre[p].keys : r.key # k}
                  /\ \A k2 \in KeyTexts \ {k} :
                         FactoidsOf(keys', factoids', k2) =
                             FactoidsOf(pre[p].keys, pre[p].factoids, k2)]_vars

\* C17 witness: learn has just appended a second fact to a key, next to
\* another key that holds a factoid.
C17_Witness ==
    /\ pc[Main] = "idle"
    /\ res[Main].op = "learn" /\ res[Main].kind = "Success"
    /\ \E rows \in {FactoidsOf(keys, factoids, res[Main].key)} :
           /\ Len(rows) >= 2
           /\ rows[1].fact # rows[Len(rows)].fact
    /\ \E k2 \in KeyTexts \ {res[Main].key} :
           FactoidsOf(keys, factoids, k2) # <<>>

\* C18: randomfactoid replies Empty exactly when the factoids table is
\* empty; otherwise it ends with a key text and a fact text such that a row
\* with that fact is stored under that key, which is the only stored row
\* when there is one; and each stored row can be the one it picks.
C18_EachStoredCanBePicked ==
    (pc[Main] = "idle" /\ budget > 0) =>
        \A f \in factoids :
            ENABLED (/\ RandomCall(Main)
                     /\ loc'[Main].factoid = f.fact
                     /\ loc'[Main].id = f.key_id)
C18_RandomFactoidReturnsStored ==
    /\ []C18_EachStoredCanBePicked
    /\ [][\A p \in Procs :
            /\ RandomCall(p) =>
                  ((factoids = {}) <=>
                      (pc'[p] = "idle" /\ res'[p].kind = "Empty"))
            /\ (pc[p] = "random_select_key" /\ Ends(p)) =>
                  /\ res'[p].kind = "Success"
                  /\ \E f \in factoids, r \in keys :
                         /\ f.key_id = r.id
                         /\ r.key = res'[p].key
                         /\ f.fact = res'[p].fact]_vars

\* C18 witness: randomfactoid has just returned one of several stored
\* factoids, which are under two keys.
C18_Witness ==
    /\ pc[Main] = "idle"
    /\ res[Main].op = "randomfactoid" /\ res[Main].kind = "Success"
    /\ Cardinality({f.key_id : f \in factoids}) >= 2

\* C19: a makeDb call changes no keys or factoids row, and the database it
\* returns has the keys table, the factoids table and the remove_factoids
\* trigger, also when first calls overlap or a first call failed.
C19_MakeDbReturnsWholeStore ==
    [][\A p \in Procs :
          /\ (MakeDbStep(p) /\ pc'[p] = "idle" /\ res'[p].kind = "Handle") =>
                 store'.objs = Schema
          /\ MakeDbStep(p) => (keys' = keys /\ factoids' = factoids)]_vars

\* C20: between calls, whatis of a key text finds nothing exactly when
\* factoidinfo of it finds no key, and for a key with at most 20 factoids
\* factoidinfo lists the contributor and time of each entry whatis lists,
\* in the same order.
C20_WhatisAndInfoAgree ==
    pc[Main] = "idle" =>
        \A k \in KeyTexts :
            LET listed == WhatisRows(keys, factoids, k)
                found == SelectKey(keys, k)
            IN /\ (listed = <<>>) <=> (found = {})
               /\ \A r \in found :
                      Len(FactoidsOf(keys, factoids, k)) <= Limit =>
                          InfoRows(factoids, r.id) =
                              [i \in 1..Len(listed) |->
                                  [added_by |-> listed[i].added_by,
                                   added_at |-> listed[i].added_at]]

====
